---- MODULE Spec2Model ----
(***************************************************************************)
(* Model of the Malloy VS Code extension glue: the worker process          *)
(* supervisor (WorkerConnection) and the connection manager                *)
(* (ConnectionManager / DynamicConnectionLookup / getConnectionForConfig). *)
(***************************************************************************)
EXTENDS Integers, Sequences, FiniteSets, TLC

\* ------------------------------------------------------------------------
\* Bounds of the model
\* ------------------------------------------------------------------------
\* Horizon of the clock, in milliseconds.
MaxTime == 10000
\* Longest IPC inbox of a worker process.
MaxInbox == 1
\* Most "error" events of the child process that the log keeps apart.
MaxErrors == 1

\* Longest configuration list handed to the connection manager.
MaxConfigs == 2
\* Most calls of setConnectionsConfig.
MaxReplacements == 1
\* Most lookup objects created by getConnectionLookup.
MaxLookups == 2
\* Most connection objects constructed.
MaxConns == 2
\* Most lookupConnection calls in flight at a time.
MaxPending == 2

\* Longest list of notebook cells.
MaxCells == 3
\* Latest value of Date.now() in the model.
MaxClock == 2

\* Messages a child process emits.
MaxEmits == 1

\* Longest list of connections handed to the save handler.
MaxSaved == 2

\* ------------------------------------------------------------------------
\* Program constants
\* ------------------------------------------------------------------------
\* setTimeout(startWorker, 5000)
RestartDelay == 5000
\* The exit status `null` the exit event carries when the child was
\* terminated by a signal (real exit codes are 0..255).
Null == -1

\* Exit statuses handed to the "exit" listener.
ExitStatuses == {0, 1, Null}
\* Messages sent over the IPC channel.
Messages == {"m1", "m2"}
\* The clock advances in steps shorter than the restart delay.
TickMs == RestartDelay \div 2

VARIABLES
  procs,    \* every child process forked so far, in fork order
  worker,   \* WorkerConnection.worker: index into procs
  timers,   \* pending setTimeout(startWorker, ...) callbacks: due times
  now,      \* the clock, ms
  errorLog  \* "error" events of the child handed to console.error

wvars == <<procs, worker, timers, now, errorLog>>

\* A freshly forked child process.
NewProcess == [state |-> "alive", status |-> 0, killed |-> FALSE, inbox |-> <<>>]

\* subprocess.connected
Connected(i) == procs[i].state = "alive"

\* Remove the element at index i of a sequence.
RemoveAt(s, i) == [k \in 1..(Len(s) - 1) |-> IF k < i THEN s[k] ELSE s[k + 1]]

\* Variant of the listener that restarts at once, without the delay.
OnExit_NoDelay(status) ==
  IF status # 0 THEN Append(timers, now) ELSE timers

\* Variant of the listener that arms the restart timer twice.
OnExit_Twice(status) ==
  IF status # 0
  THEN Append(Append(timers, now + RestartDelay), now + RestartDelay)
  ELSE timers

\* Variant of the listener that gives up after the first restart.
OnExit_Once(status) ==
  IF status # 0 /\ Len(procs) < 2
  THEN Append(timers, now + RestartDelay)
  ELSE timers

\* The "exit" listener: status !== 0 schedules startWorker after the delay.
OnExit(status) ==
  IF status # 0 THEN Append(timers, now + RestartDelay) ELSE timers

\* startWorker: fork a child and store it in this.worker.
StartWorker ==
  /\ procs' = Append(procs, NewProcess)
  /\ worker' = Len(procs) + 1

\* State after `new WorkerConnection(context)`: startWorker() ran once.
WInit ==
  /\ procs = <<NewProcess>>
  /\ worker = 1
  /\ timers = <<>>
  /\ now = 0
  /\ errorLog = 0

\* The child process i exits and its "exit" event is dispatched.
Exit(i, status) ==
  /\ i \in DOMAIN procs
  /\ procs[i].state = "alive"
  /\ now + RestartDelay <= MaxTime
  /\ status = Null => procs[i].killed
  /\ procs' = [procs EXCEPT ![i].state = "exited", ![i].status = status]
  /\ timers' = OnExit(status)
  /\ UNCHANGED <<worker, now, errorLog>>

\* A pending restart timer fires: startWorker runs.
TimerFire(k) ==
  /\ k \in DOMAIN timers
  /\ timers[k] <= now
  /\ timers' = RemoveAt(timers, k)
  /\ StartWorker
  /\ UNCHANGED <<now, errorLog>>

\* The smaller of two numbers.
Min(a, b) == IF a < b THEN a ELSE b

\* Variant of send that writes to the channel without looking at its state.
Send_Unchecked(m) ==
  /\ Len(procs[worker].inbox) < MaxInbox
  /\ procs' = [procs EXCEPT ![worker].inbox = Append(@, m)]
  /\ UNCHANGED <<worker, timers, now, errorLog>>

\* send(message): this.worker.send?.(message).  On a closed channel the
\* child emits "error", which the listener of startWorker hands to
\* console.error; nothing is thrown and nothing is delivered.
Send(m) ==
  /\ Connected(worker) => Len(procs[worker].inbox) < MaxInbox
  /\ procs' = IF Connected(worker)
              THEN [procs EXCEPT ![worker].inbox = Append(@, m)]
              ELSE procs
  /\ errorLog' = IF Connected(worker)
                 THEN errorLog
                 ELSE Min(errorLog + 1, MaxErrors)
  /\ UNCHANGED <<worker, timers, now>>

\* The worker process i takes the next message off its IPC channel.
Receive(i) ==
  /\ i \in DOMAIN procs
  /\ Connected(i)
  /\ procs[i].inbox # <<>>
  /\ procs' = [procs EXCEPT ![i].inbox = Tail(@)]
  /\ UNCHANGED <<worker, timers, now, errorLog>>

\* stop(): this.worker.kill("SIGHUP")
Stop ==
  /\ procs' = IF Connected(worker)
              THEN [procs EXCEPT ![worker].killed = TRUE]
              ELSE procs
  /\ UNCHANGED <<worker, timers, now, errorLog>>

\* Time passes.
Tick ==
  /\ now + TickMs <= MaxTime
  /\ now' = now + TickMs
  /\ UNCHANGED <<procs, worker, timers, errorLog>>

WNext ==
  \/ \E i \in 1..Len(procs), status \in ExitStatuses : Exit(i, status)
  \/ \E k \in 1..Len(timers) : TimerFire(k)
  \/ \E m \in Messages : Send(m)
  \/ \E i \in 1..Len(procs) : Receive(i)
  \/ Stop
  \/ Tick

\* ------------------------------------------------------------------------
\* Connection manager
\* ------------------------------------------------------------------------
VARIABLES
  isDuckDBAvailable,  \* the build-time flag of duckdb_availability
  configs,            \* ConnectionManager.configs: key -> config
  configList,         \* the array buildConfigMap last iterated
  ConnectionPool,     \* module-level pool: name -> connection object
  connectionLookups,  \* ConnectionManager.connectionLookups: dir -> lookup
  lookups,            \* every DynamicConnectionLookup object created
  conns,              \* every connection object constructed
  generation,         \* number of setConnectionsConfig calls so far
  lastInput           \* the list last handed to the constructor or setConnectionsConfig

cvars == <<isDuckDBAvailable, configs, configList, ConnectionPool,
           connectionLookups, lookups, conns, generation, lastInput>>

\* const DEFAULT_CONFIG = Symbol("default-config")
DEFAULT_CONFIG == "Symbol(default-config)"
\* An omitted connectionName.
Undefined == "undefined"
\* ConnectionBackend
Backends == {"BigQuery", "Postgres", "DuckDB"}
\* Working directories of the documents (path.dirname(url.pathname)).
Dirs == {"/x", "/y"}
\* Connection names a caller asks for.
LookupNames == {"a", "duckdb"}
\* An object without properties.
EmptyMap == [k \in {} |-> 0]
\* A promise rejected by getConnectionForConfig.
Rejected == 0

\* Configurations the settings can hold.
ConfigUniverse ==
  {[name |-> "a", backend |-> "BigQuery", id |-> "id-a", isDefault |-> TRUE],
   [name |-> "b", backend |-> "Postgres", id |-> "id-b", isDefault |-> TRUE],
   [name |-> "duckdb", backend |-> "DuckDB", id |-> "id-d", isDefault |-> FALSE]}

\* Configuration lists handed to the constructor or setConnectionsConfig.
InputLists ==
  UNION {[1..n -> ConfigUniverse] : n \in 0..MaxConfigs}

\* Configuration lists the manager is constructed with.
InitLists == {list \in InputLists : Len(list) <= 1}

\* Variant of the first half that appends the duckdb entry unconditionally.
ResolveConfigs_AlwaysAppend(list) ==
  LET base == IF Len(list) = 0
              THEN <<[name |-> "bigquery", backend |-> "BigQuery",
                      id |-> "bigquery-default", isDefault |-> TRUE]>>
              ELSE list
  IN Append(base, [name |-> "duckdb", backend |-> "DuckDB",
                   id |-> "duckdb-default", isDefault |-> FALSE])

\* buildConfigMap, first half: the list that is folded into the map.
ResolveConfigs(list) ==
  LET base == IF Len(list) = 0
              THEN <<[name |-> "bigquery", backend |-> "BigQuery",
                      id |-> "bigquery-default", isDefault |-> TRUE]>>
              ELSE list
  IN IF \E i \in DOMAIN base : base[i].name = "duckdb"
     THEN base
     ELSE Append(base, [name |-> "duckdb", backend |-> "DuckDB",
                        id |-> "duckdb-default", isDefault |-> FALSE])

\* buildConfigMap, second half: configs.forEach over the entries from i on.
RECURSIVE ApplyConfigs(_, _, _)
ApplyConfigs(map, list, i) ==
  IF i > Len(list)
  THEN map
  ELSE LET c == list[i]
           m1 == IF c.isDefault THEN (DEFAULT_CONFIG :> c) @@ map ELSE map
           m2 == (c.name :> c) @@ m1
       IN ApplyConfigs(m2, list, i + 1)

\* buildConfigMap(list) on the map this.configs.
BuildConfigMap(map, list) ==
  [list |-> ResolveConfigs(list),
   map |-> ApplyConfigs(map, ResolveConfigs(list), 1)]

\* Variant of getConnectionForConfig that never reads the pool.
GetConnectionForConfig_NoPoolRead(cfg, usePool, dir) ==
  IF cfg.backend \in {"BigQuery", "Postgres"}
  THEN [value |-> Len(conns) + 1,
        conns |-> Append(conns, [name |-> cfg.name, backend |-> cfg.backend,
                                 dir |-> "", gen |-> generation]),
        pool |-> IF usePool
                 THEN (cfg.name :> (Len(conns) + 1)) @@ ConnectionPool
                 ELSE ConnectionPool]
  ELSE IF ~isDuckDBAvailable
  THEN [value |-> Rejected, conns |-> conns, pool |-> ConnectionPool]
  ELSE [value |-> Len(conns) + 1,
        conns |-> Append(conns, [name |-> cfg.name, backend |-> cfg.backend,
                                 dir |-> dir, gen |-> generation]),
        pool |-> ConnectionPool]

\* Variant of getConnectionForConfig that never writes the pool.
GetConnectionForConfig_NoPoolWrite(cfg, usePool, dir) ==
  IF usePool /\ cfg.name \in DOMAIN ConnectionPool
  THEN [value |-> ConnectionPool[cfg.name], conns |-> conns,
        pool |-> ConnectionPool]
  ELSE IF cfg.backend \in {"BigQuery", "Postgres"}
  THEN [value |-> Len(conns) + 1,
        conns |-> Append(conns, [name |-> cfg.name, backend |-> cfg.backend,
                                 dir |-> "", gen |-> generation]),
        pool |-> ConnectionPool]
  ELSE IF ~isDuckDBAvailable
  THEN [value |-> Rejected, conns |-> conns, pool |-> ConnectionPool]
  ELSE [value |-> Len(conns) + 1,
        conns |-> Append(conns, [name |-> cfg.name, backend |-> cfg.backend,
                                 dir |-> dir, gen |-> generation]),
        pool |-> ConnectionPool]

\* getConnectionForConfig(connectionConfig, {workingDirectory, usePool}):
\* the promise returned and the heap and the pool it leaves.
GetConnectionForConfig(cfg, usePool, dir) ==
  IF usePool /\ cfg.name \in DOMAIN ConnectionPool
  THEN [value |-> ConnectionPool[cfg.name], conns |-> conns,
        pool |-> ConnectionPool]
  ELSE IF cfg.backend \in {"BigQuery", "Postgres"}
  THEN [value |-> Len(conns) + 1,
        conns |-> Append(conns, [name |-> cfg.name, backend |-> cfg.backend,
                                 dir |-> "", gen |-> generation]),
        pool |-> IF usePool
                 THEN (cfg.name :> (Len(conns) + 1)) @@ ConnectionPool
                 ELSE ConnectionPool]
  ELSE IF ~isDuckDBAvailable
  THEN [value |-> Rejected, conns |-> conns, pool |-> ConnectionPool]
  ELSE [value |-> Len(conns) + 1,
        conns |-> Append(conns, [name |-> cfg.name, backend |-> cfg.backend,
                                 dir |-> dir, gen |-> generation]),
        pool |-> ConnectionPool]

\* State after `new ConnectionManager(configs)`.
CInit ==
  /\ isDuckDBAvailable \in BOOLEAN
  /\ \E list \in InitLists :
       /\ configs = BuildConfigMap(EmptyMap, list).map
       /\ configList = BuildConfigMap(EmptyMap, list).list
       /\ lastInput = list
  /\ ConnectionPool = EmptyMap
  /\ connectionLookups = EmptyMap
  /\ lookups = <<>>
  /\ conns = <<>>
  /\ generation = 0

\* Variant of setConnectionsConfig that leaves the pool as it is.
SetConnectionsConfig_KeepsPool(list) ==
  /\ generation < MaxReplacements
  /\ connectionLookups' = EmptyMap
  /\ configs' = BuildConfigMap(configs, list).map
  /\ configList' = BuildConfigMap(configs, list).list
  /\ generation' = generation + 1
  /\ lastInput' = list
  /\ UNCHANGED <<isDuckDBAvailable, lookups, conns, ConnectionPool>>

\* setConnectionsConfig(connectionsConfig)
SetConnectionsConfig(list) ==
  /\ generation < MaxReplacements
  /\ connectionLookups' = EmptyMap
  /\ ConnectionPool' = EmptyMap
  /\ configs' = BuildConfigMap(configs, list).map
  /\ configList' = BuildConfigMap(configs, list).list
  /\ generation' = generation + 1
  /\ lastInput' = list
  /\ UNCHANGED <<isDuckDBAvailable, lookups, conns>>

\* getConnectionLookup(url), with dir = path.dirname(url.pathname)
GetConnectionLookup(dir) ==
  /\ IF dir \in DOMAIN connectionLookups
     THEN UNCHANGED <<lookups, connectionLookups>>
     ELSE /\ Len(lookups) < MaxLookups
          /\ lookups' = Append(lookups, [dir |-> dir, connections |-> EmptyMap])
          /\ connectionLookups' = (dir :> (Len(lookups) + 1)) @@ connectionLookups
  /\ UNCHANGED <<isDuckDBAvailable, configs, configList, ConnectionPool,
                 conns, generation, lastInput>>

\* const connectionKey = connectionName || DEFAULT_CONFIG
ConnectionKey(connectionName) ==
  IF connectionName = Undefined THEN DEFAULT_CONFIG ELSE connectionName

\* Variant of lookupConnection whose options switch the pool off.
LookupConnection_NoPool(l, connectionName) ==
  LET connectionKey == ConnectionKey(connectionName) IN
  /\ l \in DOMAIN lookups
  /\ IF connectionKey \in DOMAIN lookups[l].connections
     THEN UNCHANGED <<lookups, conns, ConnectionPool>>
     ELSE IF connectionKey \in DOMAIN configs
     THEN LET r == GetConnectionForConfig(configs[connectionKey], FALSE,
                                          lookups[l].dir)
          IN /\ Len(r.conns) <= MaxConns
             /\ conns' = r.conns
             /\ ConnectionPool' = r.pool
             /\ lookups' = [lookups EXCEPT ![l].connections =
                              (connectionKey :> r.value) @@ @]
     ELSE UNCHANGED <<lookups, conns, ConnectionPool>>
  /\ UNCHANGED <<isDuckDBAvailable, configs, configList, connectionLookups,
                 generation, lastInput>>

\* lookupConnection(connectionName) on the lookup object l
LookupConnection(l, connectionName) ==
  LET connectionKey == ConnectionKey(connectionName) IN
  /\ l \in DOMAIN lookups
  /\ IF connectionKey \in DOMAIN lookups[l].connections
     THEN UNCHANGED <<lookups, conns, ConnectionPool>>
     ELSE IF connectionKey \in DOMAIN configs
     THEN LET r == GetConnectionForConfig(configs[connectionKey], TRUE,
                                          lookups[l].dir)
          IN /\ Len(r.conns) <= MaxConns
             /\ conns' = r.conns
             /\ ConnectionPool' = r.pool
             /\ lookups' = [lookups EXCEPT ![l].connections =
                              (connectionKey :> r.value) @@ @]
     ELSE UNCHANGED <<lookups, conns, ConnectionPool>>
  /\ UNCHANGED <<isDuckDBAvailable, configs, configList, connectionLookups,
                 generation, lastInput>>

\* connectionForConfig(connectionConfig): no pool, working directory "/"
ConnectionForConfig(cfg) ==
  LET r == GetConnectionForConfig(cfg, FALSE, "/") IN
  /\ Len(r.conns) <= MaxConns
  /\ conns' = r.conns
  /\ ConnectionPool' = r.pool
  /\ UNCHANGED <<isDuckDBAvailable, configs, configList, connectionLookups,
                 lookups, generation, lastInput>>

CNext ==
  \/ \E list \in InputLists : SetConnectionsConfig(list)
  \/ \E dir \in Dirs : GetConnectionLookup(dir)
  \/ \E l \in 1..Len(lookups), n \in LookupNames \cup {Undefined} :
       LookupConnection(l, n)
  \/ \E cfg \in ConfigUniverse : ConnectionForConfig(cfg)

\* ------------------------------------------------------------------------
\* Connection manager: lookups in flight
\* ------------------------------------------------------------------------
VARIABLES
  pending   \* lookupConnection calls whose promise the caller still awaits

avars == <<pending>>

\* Connection names asked for by overlapping callers.
RaceNames == {Undefined, "duckdb"}

\* Nothing has been called yet.
AInit == pending = {}

\* lookupConnection is called: an async function runs up to its first
\* await before it returns, and neither lookupConnection nor
\* getConnectionForConfig awaits anything, so the whole body runs at the
\* call; the caller is left awaiting the promise.
LookupStart(l, connectionName) ==
  LET connectionKey == ConnectionKey(connectionName) IN
  /\ Cardinality(pending) < MaxPending
  /\ LookupConnection(l, connectionName)
  /\ pending' =
       IF connectionKey \in DOMAIN lookups'[l].connections
       THEN pending \cup
              {[lookup |-> l, key |-> connectionKey,
                value |-> lookups'[l].connections[connectionKey],
                constructed |-> Len(conns') > Len(conns)]}
       ELSE pending

\* The awaiting caller of the call p receives the settled promise.
LookupSettle(p) ==
  /\ p \in pending
  /\ pending' = pending \ {p}
  /\ UNCHANGED cvars

ANext ==
  \/ \E list \in InitLists : SetConnectionsConfig(list) /\ UNCHANGED avars
  \/ \E dir \in Dirs : GetConnectionLookup(dir) /\ UNCHANGED avars
  \/ \E l \in 1..Len(lookups), n \in RaceNames : LookupStart(l, n)
  \/ \E p \in pending : LookupSettle(p)

\* ------------------------------------------------------------------------
\* Model and query materializer factory
\* ------------------------------------------------------------------------
VARIABLES
  clock,   \* Date.now()
  mcall    \* the latest call of the factory: its arguments and its outcome

mvars == <<clock, mcall>>

\* cell.languageId
LanguageIds == {"malloy", "text"}
\* The uri of the document, apart from the uris of the cells.
DocUri == 0
\* The cells of a notebook of n cells: the uri of a cell is its position.
Notebooks(n) ==
  {[i \in 1..n |-> [languageId |-> langs[i], uri |-> i]] :
     langs \in [1..n -> LanguageIds]}
\* The cellData argument: null, or the cells of a notebook.
CellDatas ==
  {[present |-> FALSE, cells |-> <<>>]}
  \cup {[present |-> TRUE, cells |-> cs] :
          cs \in UNION {Notebooks(n) : n \in 0..MaxCells}}
\* The refreshSchemaCache argument: omitted, a boolean or an epoch.
RefreshValues ==
  {[kind |-> "undefined", num |-> 0], [kind |-> "true", num |-> 0],
   [kind |-> "false", num |-> 0], [kind |-> "number", num |-> 0],
   [kind |-> "number", num |-> 7]}
\* The type tags of WorkerQuerySpec.
QueryTypes == {"string", "named", "file", "named_sql", "unnamed_sql"}
\* Query specs received from the extension, one with a tag of no kind.
Queries == [type : QueryTypes \cup {"other"}, index : {-1, 0}]

\* The truthiness of a refreshSchemaCache value.
Truthy(refresh) ==
  refresh.kind = "true" \/ (refresh.kind = "number" /\ refresh.num # 0)

\* Variant of the normalization that resamples an epoch as well.
Resample_AlsoNumbers(refresh, t) ==
  IF Truthy(refresh) THEN [kind |-> "number", num |-> t] ELSE refresh

\* if (refreshSchemaCache && typeof refreshSchemaCache !== 'number')
\*   refreshSchemaCache = Date.now()
Resample(refresh, t) ==
  IF Truthy(refresh) /\ refresh.kind # "number"
  THEN [kind |-> "number", num |-> t]
  ELSE refresh

\* One call of a model loader of the runtime or of a materializer.
LoaderCall(op, url, importBase, refresh) ==
  [op |-> op, url |-> url, importBaseURL |-> importBase,
   refreshSchemaCache |-> refresh]

\* Variant of the loop body that loads a cell of any language.
LoadCell_EveryCell(cell, refresh, mm) ==
  IF mm # <<>>
  THEN Append(mm, LoaderCall("extendModel", cell.uri, TRUE, refresh))
  ELSE <<LoaderCall("loadModel", cell.uri, TRUE, refresh)>>

\* The body of the loop over the cells: a Malloy cell extends the
\* materializer, or loads the first one; any other cell is passed over.
LoadCell(cell, refresh, mm) ==
  IF cell.languageId = "malloy"
  THEN IF mm # <<>>
       THEN Append(mm, LoaderCall("extendModel", cell.uri, TRUE, refresh))
       ELSE <<LoaderCall("loadModel", cell.uri, TRUE, refresh)>>
  ELSE mm

\* for (const cell of cellData.cells): a materializer is the sequence of
\* loader calls that built it, null the empty sequence.
RECURSIVE LoadCells(_, _, _, _)
LoadCells(cells, refresh, i, mm) ==
  IF i > Len(cells)
  THEN mm
  ELSE LoadCells(cells, refresh, i + 1, LoadCell(cells[i], refresh, mm))

\* createModelMaterializer(uri, runtime, cellData, refreshSchemaCache)
\* called when Date.now() is t.
CreateModelMaterializer(uri, cellData, refresh, t) ==
  IF cellData.present
  THEN LoadCells(cellData.cells, Resample(refresh, t), 1, <<>>)
  ELSE <<LoaderCall("loadModel", uri, FALSE, refresh)>>

\* The switch of createRunnable over query.type.
QueryLoader(query) ==
  CASE query.type = "string" -> <<"loadQuery">>
    [] query.type = "named" -> <<"loadQueryByName">>
    [] query.type = "file" ->
         IF query.index = -1
         THEN <<"loadFinalQuery">>
         ELSE <<"loadQueryByIndex">>
    [] query.type = "named_sql" -> <<"loadSQLBlockByName">>
    [] query.type = "unnamed_sql" -> <<"loadSQLBlockByIndex">>
    [] OTHER -> <<>>

\* Variant of createRunnable that does not test the materializer.
CreateRunnable_NoModelTest(query, cellData, t) ==
  LET mm == CreateModelMaterializer(DocUri, cellData,
                                    [kind |-> "undefined", num |-> 0], t)
  IN IF query.type \notin QueryTypes
     THEN [mm |-> mm, outcome |-> "throw",
           error |-> "Internal Error: Unexpected query type",
           loaders |-> <<>>]
     ELSE [mm |-> mm, outcome |-> "return", error |-> "",
           loaders |-> QueryLoader(query)]

\* createRunnable(query, runtime, cellData) called when Date.now() is t.
CreateRunnable(query, cellData, t) ==
  LET mm == CreateModelMaterializer(DocUri, cellData,
                                    [kind |-> "undefined", num |-> 0], t)
  IN IF mm = <<>>
     THEN [mm |-> mm, outcome |-> "throw",
           error |-> "Missing model definition", loaders |-> <<>>]
     ELSE IF query.type \notin QueryTypes
     THEN [mm |-> mm, outcome |-> "throw",
           error |-> "Internal Error: Unexpected query type",
           loaders |-> <<>>]
     ELSE [mm |-> mm, outcome |-> "return", error |-> "",
           loaders |-> QueryLoader(query)]

\* The record of a call of the factory.
FactoryCall(fn, query, cellData, refresh, t, r) ==
  [fn |-> fn, query |-> query, cellData |-> cellData, refresh |-> refresh,
   now |-> t, mm |-> r.mm, outcome |-> r.outcome, error |-> r.error,
   loaders |-> r.loaders]

\* The record of no call.
NoCall ==
  FactoryCall("none", [type |-> "other", index |-> 0],
              [present |-> FALSE, cells |-> <<>>],
              [kind |-> "undefined", num |-> 0], 0,
              [mm |-> <<>>, outcome |-> "return", error |-> "",
               loaders |-> <<>>])

\* No call yet.
MInit ==
  /\ clock = 1
  /\ mcall = NoCall

\* Time passes.
ClockTick ==
  /\ clock < MaxClock
  /\ clock' = clock + 1
  /\ UNCHANGED mcall

\* A caller awaits createModelMaterializer(...).
CallCreateModelMaterializer(cellData, refresh) ==
  /\ mcall = NoCall
  /\ mcall' = FactoryCall("createModelMaterializer",
                          [type |-> "other", index |-> 0], cellData, refresh,
                          clock,
                          [mm |-> CreateModelMaterializer(DocUri, cellData,
                                                          refresh, clock),
                           outcome |-> "return", error |-> "",
                           loaders |-> <<>>])
  /\ UNCHANGED clock

\* A caller awaits createRunnable(...).
CallCreateRunnable(query, cellData) ==
  /\ mcall = NoCall
  /\ mcall' = FactoryCall("createRunnable", query, cellData,
                          [kind |-> "undefined", num |-> 0], clock,
                          CreateRunnable(query, cellData, clock))
  /\ UNCHANGED clock

\* The caller has taken the outcome of the call.
Done ==
  /\ mcall # NoCall
  /\ mcall' = NoCall
  /\ UNCHANGED clock

MNext ==
  \/ ClockTick
  \/ Done
  \/ \E cellData \in CellDatas, refresh \in RefreshValues :
       CallCreateModelMaterializer(cellData, refresh)
  \/ \E query \in Queries, cellData \in CellDatas :
       CallCreateRunnable(query, cellData)

\* ------------------------------------------------------------------------
\* Connections pre-save handler and the keychain
\* ------------------------------------------------------------------------
VARIABLES
  keychain,  \* the OS keychain: [service, account] -> password
  scall      \* the latest call of handleConnectionsPreSave and its outcome

svars == <<keychain, scall>>

\* The service name both the handler and the credential reader pass.
KeychainService == "com.malloy-lang.vscode-extension"

\* Values of a password field: undefined, empty, or a password.
Passwords == {"undefined", "", "secret"}
\* if (connection.password)
TruthyPassword(password) == password \notin {"undefined", ""}

\* The connections the editor webview sends: the id of a connection is its
\* position; hasPassword says whether the object has a password key.
EditedLists(n) ==
  {[i \in 1..n |-> [id |-> i, isDefault |-> FALSE,
                    hasPassword |-> f[i].hasPassword,
                    password |-> f[i].password,
                    useKeychainPassword |-> f[i].useKeychainPassword,
                    isGenerated |-> f[i].isGenerated]] :
     f \in [1..n -> {e \in [hasPassword : BOOLEAN, password : Passwords,
                            useKeychainPassword : {"true", "false"},
                            isGenerated : BOOLEAN] :
                       ~e.hasPassword => e.password = "undefined"}]}
\* Every list of at most MaxSaved connections.
EditedInputs == UNION {EditedLists(n) : n \in 0..MaxSaved}

\* Variant of the key that leaves the suffix out.
PreSaveKey_NoSuffix(id) ==
  [service |-> KeychainService, account |-> <<"connections", id>>]

\* The key handleConnectionsPreSave writes and deletes:
\* `connections.${connection.id}.password`
PreSaveKey(id) ==
  [service |-> KeychainService, account |-> <<"connections", id, "password">>]

\* The key configReader of the Postgres connection reads:
\* `connections.${connectionConfig.id}.password`
ReaderKey(id) ==
  [service |-> KeychainService, account |-> <<"connections", id, "password">>]

\* configReader: the password a Postgres connection opens with.
ReaderPassword(config, chain) ==
  IF config.hasPassword /\ config.password # "undefined"
  THEN config.password
  ELSE IF config.useKeychainPassword = "true"
          /\ ReaderKey(config.id) \in DOMAIN chain
          /\ chain[ReaderKey(config.id)] # ""
  THEN chain[ReaderKey(config.id)]
  ELSE "undefined"

\* await deletePassword(service, account); the call number failAt rejects.
KeychainDelete(acc, key, failAt) ==
  IF acc.ops + 1 = failAt
  THEN [acc EXCEPT !.ops = @ + 1, !.rejected = TRUE]
  ELSE [acc EXCEPT !.ops = @ + 1,
                   !.keychain = [k \in DOMAIN @ \ {key} |-> @[k]]]

\* await setPassword(service, account, password)
KeychainSet(acc, key, password, failAt) ==
  IF acc.ops + 1 = failAt
  THEN [acc EXCEPT !.ops = @ + 1, !.rejected = TRUE]
  ELSE [acc EXCEPT !.ops = @ + 1, !.keychain = (key :> password) @@ @]

\* The copy pushed for a connection with a password.
Scrubbed(connection) ==
  [connection EXCEPT !.hasPassword = TRUE, !.password = "undefined",
                     !.useKeychainPassword = "true"]

\* The loop of handleConnectionsPreSave from position index on; acc holds
\* modifiedConnections, the keychain and the number of keychain calls.
RECURSIVE PreSaveLoop(_, _, _, _, _)
PreSaveLoop(connections, defaultIndex, failAt, index, acc) ==
  IF index > Len(connections) \/ acc.rejected
  THEN acc
  ELSE LET c0 == [connections[index] EXCEPT
                    !.isDefault = (index = defaultIndex)]
           del == c0.hasPassword /\ c0.useKeychainPassword = "false"
           c1 == IF del
                 THEN [c0 EXCEPT !.useKeychainPassword = "undefined"]
                 ELSE c0
           a1 == IF del
                 THEN KeychainDelete(acc, PreSaveKey(c1.id), failAt)
                 ELSE acc
           a2 == IF c1.hasPassword /\ TruthyPassword(c1.password)
                    /\ ~a1.rejected
                 THEN KeychainSet([a1 EXCEPT !.out = Append(@, Scrubbed(c1))],
                                  PreSaveKey(c1.id), c1.password, failAt)
                 ELSE a1
           a3 == IF ~c1.hasPassword /\ ~c1.isGenerated
                 THEN [a2 EXCEPT !.out = Append(@, c1)]
                 ELSE a2
       IN PreSaveLoop(connections, defaultIndex, failAt, index + 1, a3)

\* handleConnectionsPreSave(connections), getDefaultIndex having answered
\* defaultIndex (0 for no index).
HandleConnectionsPreSave(connections, defaultIndex, failAt, chain) ==
  PreSaveLoop(connections, defaultIndex, failAt, 1,
              [out |-> <<>>, keychain |-> chain, ops |-> 0,
               rejected |-> FALSE])

\* The record of a call of the handler.
SaveCall(fn, connections, defaultIndex, out, outcome) ==
  [fn |-> fn, connections |-> connections, defaultIndex |-> defaultIndex,
   out |-> out, outcome |-> outcome]

\* The record of no call.
NoSave == SaveCall("none", <<>>, 0, <<>>, "return")

\* An empty keychain and no call yet.
SInit ==
  /\ keychain = EmptyMap
  /\ scall = NoSave

\* The editor panel saves: handleConnectionsPreSave(connections).
CallHandleConnectionsPreSave(connections, defaultIndex, failAt) ==
  LET r == HandleConnectionsPreSave(connections, defaultIndex, failAt,
                                    keychain)
  IN /\ scall = NoSave
     /\ keychain' = r.keychain
     /\ scall' = SaveCall("handleConnectionsPreSave", connections,
                          defaultIndex,
                          IF r.rejected THEN <<>> ELSE r.out,
                          IF r.rejected THEN "reject" ELSE "return")

\* The panel has taken the outcome of the call.
SaveDone ==
  /\ scall # NoSave
  /\ scall' = NoSave
  /\ UNCHANGED keychain

SNext ==
  \/ /\ scall = NoSave
     /\ \E connections \in EditedInputs :
          \E defaultIndex \in 0..Len(connections), failAt \in 0..1 :
            CallHandleConnectionsPreSave(connections, defaultIndex, failAt)
  \/ SaveDone

\* ------------------------------------------------------------------------
\* Listeners on the worker
\* ------------------------------------------------------------------------
VARIABLES
  listeners,  \* listeners[i]: the "message" listeners of child process i
  emitted,    \* emitted[i]: the messages child process i has emitted
  delivered   \* <<listener, i>>: listener ran for a message of process i

lvars == <<listeners, emitted, delivered>>

\* The listeners callers register.
ListenerNames == {"f", "g"}

\* Variant in which a new child inherits the listeners of the old one.
NewListeners_Carried == listeners[worker]

\* The "message" listeners of a child that startWorker has just forked:
\* startWorker attaches an "error" and an "exit" listener and no other.
NewListeners == {}

\* The first child has the listeners startWorker gave it.
LInit ==
  /\ listeners = <<{}>>
  /\ emitted = <<0>>
  /\ delivered = {}

\* A restart timer fires: startWorker forks the replacement child.
Restart(k) ==
  /\ TimerFire(k)
  /\ listeners' = Append(listeners, NewListeners)
  /\ emitted' = Append(emitted, 0)
  /\ UNCHANGED delivered

\* on(event, listener): this.worker.on(event, listener).
On(listener) ==
  /\ listeners' = [listeners EXCEPT ![worker] = @ \cup {listener}]
  /\ UNCHANGED <<emitted, delivered, wvars>>

\* Child process i emits a message: its listeners run.
Emit(i) ==
  /\ i \in DOMAIN procs
  /\ procs[i].state = "alive"
  /\ emitted[i] < MaxEmits
  /\ emitted' = [emitted EXCEPT ![i] = @ + 1]
  /\ delivered' = delivered \cup {<<l, i>> : l \in listeners[i]}
  /\ UNCHANGED <<listeners, wvars>>

LNext ==
  \/ \E i \in 1..Len(procs), status \in ExitStatuses :
       Exit(i, status) /\ UNCHANGED lvars
  \/ \E k \in 1..Len(timers) : Restart(k)
  \/ Stop /\ UNCHANGED lvars
  \/ Tick /\ UNCHANGED lvars
  \/ \E listener \in ListenerNames : On(listener)
  \/ \E i \in 1..Len(procs) : Emit(i)

vars == <<wvars, cvars, avars, mvars, svars, lvars>>
Init == WInit /\ CInit /\ AInit /\ MInit /\ SInit /\ LInit

\* The worker supervisor on its own.
Next == WNext /\ UNCHANGED <<cvars, avars, mvars, svars, lvars>>
Spec == Init /\ [][Next]_vars

\* The connection manager on its own.
ConnNext == CNext /\ UNCHANGED <<wvars, avars, mvars, svars, lvars>>
ConnSpec == Init /\ [][ConnNext]_vars

\* The connection manager with overlapping lookups.
RaceNext == ANext /\ UNCHANGED <<wvars, mvars, svars, lvars>>
RaceSpec == Init /\ [][RaceNext]_vars

\* The materializer factory on its own.
MatNext == MNext /\ UNCHANGED <<wvars, cvars, avars, svars, lvars>>
MatSpec == Init /\ [][MatNext]_vars

\* The pre-save handler on its own.
SaveNext == SNext /\ UNCHANGED <<wvars, cvars, avars, mvars, lvars>>
\* It starts with DuckDB present and no connection configured.
SaveInit == Init /\ isDuckDBAvailable /\ lastInput = <<>>
SaveSpec == SaveInit /\ [][SaveNext]_vars

\* The worker supervisor with the listeners of its callers.
ListenNext == LNext /\ UNCHANGED <<cvars, avars, mvars, svars>>
ListenSpec == SaveInit /\ [][ListenNext]_vars

\* The event loop runs due timers and the clock advances.
LiveSpec ==
  /\ Spec
  /\ WF_vars(Tick /\ UNCHANGED <<cvars, avars, mvars, svars, lvars>>)
  /\ WF_vars((\E k \in 1..Len(timers) : TimerFire(k))
             /\ UNCHANGED <<cvars, avars, mvars, svars, lvars>>)

\* ------------------------------------------------------------------------
\* Worker supervisor: properties
\* ------------------------------------------------------------------------
\* Process i exits in this step.
Exits(i) == procs[i].state = "alive" /\ procs'[i].state = "exited"
\* Process i has exited with a status other than 0.
ExitedAbnormally(i) ==
  i \in DOMAIN procs /\ procs[i].state = "exited" /\ procs[i].status # 0
\* Most processes the clock horizon leaves room for.
MaxProcs == MaxTime \div RestartDelay + 1

\* C1: an exit event with status 0 schedules no restart; an exit event with
\* any other status schedules exactly one restart, due 5 seconds later; and
\* a fork happens only by consuming one timer whose delay has elapsed.
C1_ExitSchedulesOneDelayedRestart ==
  [][ /\ \A i \in DOMAIN procs : Exits(i) =>
            /\ Len(procs') = Len(procs)
            /\ procs'[i].status = 0 => timers' = timers
            /\ procs'[i].status # 0 => timers' = Append(timers, now + RestartDelay)
      /\ Len(procs') # Len(procs) =>
            /\ Len(procs') = Len(procs) + 1
            /\ \E k \in DOMAIN timers :
                  timers[k] <= now /\ timers' = RemoveAt(timers, k)
    ]_vars
\* A worker crashed with status 1 and its replacement has been forked.
C1_Witness ==
  \E i \in DOMAIN procs :
    procs[i].state = "exited" /\ procs[i].status = 1 /\ Len(procs) > i

\* C2: once stop() has signalled a worker, its exit with a non-zero or null
\* status leaves no restart pending and no later process forked.
C2_StopSuppressesRestart ==
  \A i \in DOMAIN procs :
    (procs[i].killed /\ ExitedAbnormally(i)) =>
      (timers = <<>> /\ Len(procs) = i)

\* C3: at most one forked worker is alive, and this.worker is the most
\* recently forked process.
C3_OneWorkerAlive ==
  /\ Cardinality({i \in DOMAIN procs : procs[i].state = "alive"}) <= 1
  /\ worker = Len(procs)
\* A replacement worker runs after a stopped worker and a crash.
C3_Witness ==
  /\ Len(procs) >= 3
  /\ procs[worker].state = "alive"
  /\ \E i \in DOMAIN procs : procs[i].killed /\ procs[i].state = "exited"

\* C4: every restart timer is armed for the same 5 seconds whatever the
\* number of earlier crashes, and every abnormal exit is eventually
\* followed by the fork of a replacement.
C4_FlatUnboundedRestart ==
  /\ [][\A k \in DOMAIN timers' :
          (k > Len(timers) /\ Len(timers') > Len(timers)) =>
            timers'[k] = now + RestartDelay]_vars
  /\ \A i \in 1..MaxProcs : ExitedAbnormally(i) ~> (Len(procs) > i)
\* The second crash in a row has been replaced.
C4_Witness ==
  /\ Len(procs) >= 3
  /\ ExitedAbnormally(1)
  /\ ExitedAbnormally(2)

\* C5: a message enters the channel of a process only while that process
\* is the connected current worker; a send without a connected worker
\* changes no channel, and a forked worker starts with an empty channel.
C5_SendWithoutWorkerIsDropped ==
  [][\A i \in DOMAIN procs' :
       IF i \in DOMAIN procs
       THEN Len(procs'[i].inbox) > Len(procs[i].inbox) =>
              (Connected(i) /\ i = worker)
       ELSE procs'[i].inbox = <<>>
    ]_vars
\* A send met a closed channel, a request was in flight at the crash, and
\* the replacement worker has nothing in its channel.
C5_Witness ==
  /\ errorLog > 0
  /\ Len(procs) >= 2
  /\ procs[1].state = "exited"
  /\ procs[1].inbox # <<>>
  /\ procs[worker].state = "alive"
  /\ procs[worker].inbox = <<>>

\* ------------------------------------------------------------------------
\* Connection manager: properties
\* ------------------------------------------------------------------------
\* this.connections of the lookup object l.
Cache(l) == lookups[l].connections
\* The lookup objects handed out since the last configuration replacement.
CurrentLookups == {connectionLookups[d] : d \in DOMAIN connectionLookups}
\* What lookupConnection on l returns for key k: a settled connection.
Resolves(l, k) == k \in DOMAIN Cache(l) /\ Cache(l)[k] # Rejected

\* A later call on one lookup object returns what the earlier call returned.
SameObjectOnRepeat ==
  \A l \in DOMAIN lookups : \A k \in DOMAIN Cache(l) :
    lookups'[l].connections[k] = Cache(l)[k]

C7_OneObjectPerName ==
  \A l1 \in DOMAIN lookups, l2 \in DOMAIN lookups :
    \A k1 \in DOMAIN Cache(l1), k2 \in DOMAIN Cache(l2) :
      ( /\ Resolves(l1, k1)
        /\ Resolves(l2, k2)
        /\ conns[Cache(l1)[k1]].gen = generation
        /\ conns[Cache(l2)[k2]].gen = generation
        /\ conns[Cache(l1)[k1]].name = conns[Cache(l2)[k2]].name )
      => Cache(l1)[k1] = Cache(l2)[k2]

\* C7 (amended): every BigQuery or Postgres connection resolved through a
\* lookup object obtained since the last replacement is the pooled object
\* of its name, so all such resolutions of one name yield one object.
C7_OnePooledObjectPerName ==
  \A l \in CurrentLookups : \A k \in DOMAIN Cache(l) :
    (Resolves(l, k) /\ conns[Cache(l)[k]].backend # "DuckDB") =>
      /\ conns[Cache(l)[k]].name \in DOMAIN ConnectionPool
      /\ ConnectionPool[conns[Cache(l)[k]].name] = Cache(l)[k]
\* Two lookup objects of different directories share one Postgres object,
\* one of them reaching it by name omitted and the pool already filled.
C7_Witness ==
  \E l1 \in CurrentLookups, l2 \in CurrentLookups :
    /\ l1 # l2
    /\ Resolves(l1, DEFAULT_CONFIG)
    /\ Resolves(l2, DEFAULT_CONFIG)
    /\ Cache(l1)[DEFAULT_CONFIG] = Cache(l2)[DEFAULT_CONFIG]
    /\ conns[Cache(l1)[DEFAULT_CONFIG]].backend = "Postgres"

\* The entries of a list whose default flag is set.
DefaultEntries(list) == {i \in DOMAIN list : list[i].isDefault}
\* The first entry, in list order, whose default flag is set.
FirstDefault(list) ==
  list[CHOOSE i \in DefaultEntries(list) :
         \A j \in DefaultEntries(list) : i <= j]

\* C8: a lookup without a name resolves to the first entry of the
\* configuration list whose default flag is set.
C8_DefaultIsFirstFlagged ==
  \A l \in CurrentLookups :
    (Resolves(l, DEFAULT_CONFIG) /\ DefaultEntries(configList) # {}) =>
      conns[Cache(l)[DEFAULT_CONFIG]].name = FirstDefault(configList).name

\* The list names "duckdb".
NamesDuckDB(list) == \E i \in DOMAIN list : list[i].name = "duckdb"

\* C9: an empty list resolves to a default BigQuery entry followed by a
\* non-default duckdb entry; a non-empty list without "duckdb" resolves to
\* itself, in order, followed by one synthesized non-default duckdb entry;
\* a list that names "duckdb" resolves to itself.
C9_ResolvedList ==
  /\ Len(lastInput) = 0 =>
       /\ Len(configList) = 2
       /\ configList[1].name = "bigquery"
       /\ configList[1].backend = "BigQuery"
       /\ configList[1].isDefault
       /\ configList[2].name = "duckdb"
       /\ configList[2].backend = "DuckDB"
       /\ ~configList[2].isDefault
  /\ (Len(lastInput) > 0 /\ ~NamesDuckDB(lastInput)) =>
       /\ Len(configList) = Len(lastInput) + 1
       /\ \A i \in DOMAIN lastInput : configList[i] = lastInput[i]
       /\ configList[Len(configList)].name = "duckdb"
       /\ configList[Len(configList)].backend = "DuckDB"
       /\ ~configList[Len(configList)].isDefault
  /\ NamesDuckDB(lastInput) => configList = lastInput
\* setConnectionsConfig has resolved a two-entry list without "duckdb".
C9_Witness ==
  /\ generation = 1
  /\ Len(lastInput) = 2
  /\ ~NamesDuckDB(lastInput)
  /\ Len(configList) = 3

\* The key has an entry in the configuration supplied last.
Configured(k) ==
  IF k = DEFAULT_CONFIG
  THEN DefaultEntries(configList) # {}
  ELSE \E i \in DOMAIN configList : configList[i].name = k

\* C10: a lookup for a key without an entry in the configuration supplied
\* last fails and constructs nothing, so no lookup object handed out since
\* then holds a promise for such a key.
C10_UnknownNameFails ==
  \A l \in CurrentLookups : \A k \in DOMAIN Cache(l) : Configured(k)

\* C11 (as stated): lookup objects of two different working directories
\* resolve one connection name to one object.
C11_DirectoryDoesNotPartition ==
  \A l1 \in CurrentLookups, l2 \in CurrentLookups :
    \A k \in DOMAIN Cache(l1) \cap DOMAIN Cache(l2) :
      ( /\ lookups[l1].dir # lookups[l2].dir
        /\ Resolves(l1, k)
        /\ Resolves(l2, k) )
      => Cache(l1)[k] = Cache(l2)[k]

\* C11 (amended): lookup objects of two different working directories
\* resolve one BigQuery or Postgres connection name to one object, the
\* one the pool holds under that name.
C11_DirectoryDoesNotPartitionPool ==
  \A l1 \in CurrentLookups, l2 \in CurrentLookups :
    \A k \in DOMAIN Cache(l1) \cap DOMAIN Cache(l2) :
      ( /\ lookups[l1].dir # lookups[l2].dir
        /\ Resolves(l1, k)
        /\ Resolves(l2, k)
        /\ conns[Cache(l1)[k]].backend # "DuckDB" )
      => /\ Cache(l1)[k] = Cache(l2)[k]
         /\ conns[Cache(l1)[k]].dir = ""
\* The lookup objects of "/x" and "/y" share the BigQuery object "a"
\* while each holds a DuckDB object of its own directory.
C11_Witness ==
  \E l1 \in CurrentLookups, l2 \in CurrentLookups :
    /\ lookups[l1].dir = "/x"
    /\ lookups[l2].dir = "/y"
    /\ Resolves(l1, "a")
    /\ Resolves(l2, "a")
    /\ Cache(l1)["a"] = Cache(l2)["a"]
    /\ conns[Cache(l1)["a"]].backend = "BigQuery"

\* Two calls in flight, through lookup objects handed out since the last
\* replacement, that settle to connections of one name.
Overlapping(p, q) ==
  /\ p.lookup \in CurrentLookups
  /\ q.lookup \in CurrentLookups
  /\ p.value # Rejected
  /\ q.value # Rejected
  /\ conns[p.value].name = conns[q.value].name

IsMalloy(cell) == cell.languageId = "malloy"
\* The malloy cells of the latest call, in cell order.
MalloyCells == SelectSeq(mcall.cellData.cells, IsMalloy)

\* C13: with cell data, the model is built from exactly the malloy cells
\* in cell order: loadModel for the first, extendModel for each later one.
C13_ModelFromMalloyCells ==
  (mcall.fn = "createModelMaterializer" /\ mcall.cellData.present) =>
    /\ Len(mcall.mm) = Len(MalloyCells)
    /\ \A i \in DOMAIN mcall.mm :
         /\ mcall.mm[i].url = MalloyCells[i].uri
         /\ mcall.mm[i].op = IF i = 1 THEN "loadModel" ELSE "extendModel"
\* The cells malloy, text, malloy gave a model of cell 1 extended by cell 3.
C13_Witness ==
  /\ mcall.fn = "createModelMaterializer"
  /\ mcall.cellData.present
  /\ Len(mcall.cellData.cells) = 3
  /\ mcall.cellData.cells[1].languageId = "malloy"
  /\ mcall.cellData.cells[2].languageId = "text"
  /\ mcall.cellData.cells[3].languageId = "malloy"
  /\ Len(mcall.mm) = 2
  /\ mcall.mm[1].url = 1
  /\ mcall.mm[2].url = 3
  /\ mcall.mm[2].op = "extendModel"

\* The value the loaders are to receive for a refreshSchemaCache argument.
Normalized(refresh, t) ==
  IF refresh.kind = "true" THEN [kind |-> "number", num |-> t] ELSE refresh

\* C14 (as stated): in every call of createModelMaterializer, with or
\* without cell data, each model loader receives the normalized
\* refreshSchemaCache: the time of the call for true, the epoch itself for
\* a number, nothing for an omitted value.
C14_RefreshNormalizedInEveryCall ==
  mcall.fn = "createModelMaterializer" =>
    \A i \in DOMAIN mcall.mm :
      mcall.refresh.kind \in {"true", "number", "undefined"} =>
        mcall.mm[i].refreshSchemaCache = Normalized(mcall.refresh, mcall.now)

\* C14 (amended): with cell data each model loader receives the
\* normalized refreshSchemaCache; without cell data loadModel receives the
\* argument as it was given, true included.
C14_RefreshNormalizedWithCellData ==
  mcall.fn = "createModelMaterializer" =>
    \A i \in DOMAIN mcall.mm :
      /\ (mcall.cellData.present /\
          mcall.refresh.kind \in {"true", "number", "undefined"}) =>
           mcall.mm[i].refreshSchemaCache =
             Normalized(mcall.refresh, mcall.now)
      /\ ~mcall.cellData.present =>
           mcall.mm[i].refreshSchemaCache = mcall.refresh
\* A call with cell data and true at time 2 handed epoch 2 to both loaders.
C14_Witness ==
  /\ mcall.fn = "createModelMaterializer"
  /\ mcall.cellData.present
  /\ mcall.refresh.kind = "true"
  /\ mcall.now = 2
  /\ Len(mcall.mm) = 2
  /\ \A i \in DOMAIN mcall.mm :
       mcall.mm[i].refreshSchemaCache = [kind |-> "number", num |-> 2]

\* The cell data of the latest call holds no malloy cell.
NoModel ==
  mcall.cellData.present /\
  \A i \in DOMAIN mcall.cellData.cells :
    mcall.cellData.cells[i].languageId # "malloy"

\* C15: createRunnable throws "Missing model definition" when no model is
\* produced and, a model being there, "Internal Error: Unexpected query
\* type" for a type tag of no kind, invoking no query loader in either
\* case; otherwise it invokes exactly one loader, loadFinalQuery for file
\* index -1.
C15_RunnableOrNamedFailure ==
  mcall.fn = "createRunnable" =>
    /\ NoModel =>
         /\ mcall.outcome = "throw"
         /\ mcall.error = "Missing model definition"
         /\ mcall.loaders = <<>>
    /\ (~NoModel /\ mcall.query.type \notin QueryTypes) =>
         /\ mcall.outcome = "throw"
         /\ mcall.error = "Internal Error: Unexpected query type"
         /\ mcall.loaders = <<>>
    /\ (~NoModel /\ mcall.query.type \in QueryTypes) =>
         /\ mcall.outcome = "return"
         /\ Len(mcall.loaders) = 1
         /\ (mcall.query.type = "file" /\ mcall.query.index = -1) =>
              mcall.loaders = <<"loadFinalQuery">>
\* A notebook of text cells only made createRunnable throw.
C15_Witness ==
  /\ mcall.fn = "createRunnable"
  /\ mcall.cellData.present
  /\ Len(mcall.cellData.cells) = 2
  /\ NoModel
  /\ mcall.outcome = "throw"
  /\ mcall.error = "Missing model definition"

\* ------------------------------------------------------------------------
\* Listeners on the worker: properties
\* ------------------------------------------------------------------------
\* C17: a listener registered with on() is attached only to the child that
\* is the current worker when on() is called: a step attaches a listener
\* to no other child, a replacement child starts without it, and a message
\* of a child runs only the listeners attached to that child.
C17_ListenerStaysOnItsWorker ==
  [][/\ \A i \in 1..Len(listeners') : \A l \in listeners'[i] :
          \/ i <= Len(listeners) /\ l \in listeners[i]
          \/ i = worker /\ i <= Len(listeners)
     /\ \A d \in delivered' \ delivered :
          d[2] <= Len(listeners) /\ d[1] \in listeners[d[2]]]_vars
\* The first worker delivered a message to a listener, was replaced, and
\* the message of the replacement did not reach that listener.
C17_Witness ==
  \E l \in ListenerNames :
    /\ Len(procs) >= 2
    /\ worker = 2
    /\ <<l, 1>> \in delivered
    /\ emitted[2] > 0
    /\ l \notin listeners[2]
    /\ <<l, 2>> \notin delivered

\* ------------------------------------------------------------------------
\* Pre-save handler: properties
\* ------------------------------------------------------------------------
\* The handler has returned a list.
Saved == scall.fn = "handleConnectionsPreSave" /\ scall.outcome = "return"

\* C16: no returned configuration carries a plaintext password; every
\* input connection with a non-empty password is returned without it and
\* with useKeychainPassword true, and the credential reader finds that
\* password in the keychain under the key of the connection's id.
C16_PasswordsMoveToKeychain ==
  Saved =>
    /\ \A j \in DOMAIN scall.out : ~TruthyPassword(scall.out[j].password)
    /\ \A i \in DOMAIN scall.connections :
         TruthyPassword(scall.connections[i].password) =>
           \E j \in DOMAIN scall.out :
             /\ scall.out[j].id = scall.connections[i].id
             /\ scall.out[j].password = "undefined"
             /\ scall.out[j].useKeychainPassword = "true"
             /\ PreSaveKey(scall.out[j].id) = ReaderKey(scall.out[j].id)
             /\ ReaderKey(scall.out[j].id) \in DOMAIN keychain
             /\ ReaderPassword(scall.out[j], keychain) =
                  scall.connections[i].password
\* Two connections with passwords were saved, one of them after its old
\* keychain entry was deleted.
C16_Witness ==
  /\ Saved
  /\ Len(scall.connections) = 2
  /\ \A i \in DOMAIN scall.connections :
       scall.connections[i].password = "secret"
  /\ scall.connections[1].useKeychainPassword = "false"
  /\ Len(scall.out) = 2

\* The positions of the result that hold the input connection i.
PositionsOf(i) ==
  {j \in DOMAIN scall.out : scall.out[j].id = scall.connections[i].id}

\* C18: every non-generated input connection is returned exactly once, in
\* input order, whatever its password state, and exactly the connection at
\* the default index has isDefault true in the result.
C18_EveryConnectionReturnedOnce ==
  Saved =>
    /\ \A i \in DOMAIN scall.connections :
         ~scall.connections[i].isGenerated => Cardinality(PositionsOf(i)) = 1
    /\ \A i1 \in DOMAIN scall.connections, i2 \in DOMAIN scall.connections :
         i1 < i2 =>
           \A j1 \in PositionsOf(i1), j2 \in PositionsOf(i2) : j1 < j2
    /\ \A j \in DOMAIN scall.out :
         scall.out[j].isDefault <=> scall.out[j].id = scall.defaultIndex
====
